---- MODULE Spec2Model ----
(***************************************************************************)
(* Content-protection pipeline of secure-assignment-evaluator:             *)
(* the retriever (text_chunker.get_relevant_chunks) and the stateful       *)
(* guardrail of secure_qa.answer_question, whose throttling state is the   *)
(* pair of module-level globals consecutive_quote_requests and             *)
(* previous_chunks_provided; the chunker (text_chunker.chunk_text) and     *)
(* the quote truncation that answer_question applies to the answer.        *)
(*                                                                         *)
(* Spec and SpecConcurrent are the guardrail; SpecRetriever, SpecChunker   *)
(* and SpecPostProcess apply one pure function to the inputs of a bounded  *)
(* set, the call being held in the variable job.  SpecVault is the         *)
(* encrypted store of encryption.py and app.py, SpecApp the prompts that   *)
(* app.py itself sends through the guardrail.                              *)
(*                                                                         *)
(* Texts are TLA+ strings; the regular expressions and the tokenizer are   *)
(* evaluated character by character.  answer_question is split at the      *)
(* reads and writes of the two globals (the points at which CPython can    *)
(* switch threads), one program counter per thread.                        *)
(***************************************************************************)
EXTENDS Integers, Sequences, FiniteSets, TLC

(***************************************************************************)
(* Strings                                                                 *)
(***************************************************************************)
UpperLetters == "ABCDEFGHIJKLMNOPQRSTUVWXYZ"
LowerLetters == "abcdefghijklmnopqrstuvwxyz"
Digits == "0123456789_"

CharAt(s, i) == SubSeq(s, i, i)

CharsOf(s) == {CharAt(s, i) : i \in 1..Len(s)}

\* the characters the regex class \w accepts (ASCII)
WordChars == CharsOf(UpperLetters) \cup CharsOf(LowerLetters) \cup CharsOf(Digits)

\* the characters the regex class \s accepts (those the inputs use)
SpaceChars == {" ", "\t", "\n"}

LowerChar(c) ==
    IF c \in CharsOf(UpperLetters)
    THEN CharAt(LowerLetters, CHOOSE i \in 1..Len(UpperLetters) : CharAt(UpperLetters, i) = c)
    ELSE c

RECURSIVE lower(_)
\* str.lower(), character by character (the string is halved to keep the recursion shallow)
lower(s) ==
    IF Len(s) <= 1 THEN LowerChar(s)
    ELSE lower(SubSeq(s, 1, Len(s) \div 2)) \o lower(SubSeq(s, Len(s) \div 2 + 1, Len(s)))

\* Python's  w in s  on strings
Contains(s, w) == \E i \in 1..(Len(s) - Len(w) + 1) : SubSeq(s, i, i + Len(w) - 1) = w

(***************************************************************************)
(* Regular expressions of answer_question.  A pattern is a set of          *)
(* alternatives; an alternative is a sequence of items:                    *)
(*   [k |-> "lit", a |-> S]   one of the literal strings of S              *)
(*   [k |-> "ws"]              \s+                                         *)
(*   [k |-> "any"]             .*?   (no newline)                          *)
(* An optional group (?:x)? is expanded to the alternative with x and the  *)
(* one without.                                                            *)
(***************************************************************************)
Lit(S) == [k |-> "lit", a |-> S]
Ws == [k |-> "ws", a |-> {}]
AnyRun == [k |-> "any", a |-> {}]

AllWords == {"all", "complete", "entire", "full", "whole"}
DocWords == {"text", "content", "document", "assignment", "pdf"}
ShowWords == {"show", "give", "provide"}
NextWords == {"next", "previous", "following", "remaining", "rest"}
PartWords == {"part", "section", "text", "content"}
QuoteChars == {"\"", "'"}

extraction_patterns ==
    << \* extract\s+(all|...)\s+(text|...)
       { <<Lit({"extract"}), Ws, Lit(AllWords), Ws, Lit(DocWords)>> },
       \* (show|give|provide)\s+(me|us)?\s+(all|...)\s+(text|...)
       { <<Lit(ShowWords), Ws, Lit({"me", "us"}), Ws, Lit(AllWords), Ws, Lit(DocWords)>>,
         <<Lit(ShowWords), Ws, Ws, Lit(AllWords), Ws, Lit(DocWords)>> },
       \* (copy|paste)\s+(all|...)\s+(text|...)
       { <<Lit({"copy", "paste"}), Ws, Lit(AllWords), Ws, Lit(DocWords)>> },
       \* (show|give|provide)\s+(me|us)?\s+(the\s+)?(next|...)\s+(part|...)
       { <<Lit(ShowWords), Ws, Lit({"me", "us"}), Ws, Lit({"the"}), Ws, Lit(NextWords), Ws, Lit(PartWords)>>,
         <<Lit(ShowWords), Ws, Lit({"me", "us"}), Ws, Lit(NextWords), Ws, Lit(PartWords)>>,
         <<Lit(ShowWords), Ws, Ws, Lit({"the"}), Ws, Lit(NextWords), Ws, Lit(PartWords)>>,
         <<Lit(ShowWords), Ws, Ws, Lit(NextWords), Ws, Lit(PartWords)>> },
       \* continue\s+(from|where\s+you\s+left\s+off)
       { <<Lit({"continue"}), Ws, Lit({"from"})>>,
         <<Lit({"continue"}), Ws, Lit({"where"}), Ws, Lit({"you"}), Ws, Lit({"left"}), Ws, Lit({"off"})>> },
       \* (what|show)\s+(is|are|comes)\s+(after|before)\s+["'].*?["']
       { <<Lit({"what", "show"}), Ws, Lit({"is", "are", "comes"}), Ws, Lit({"after", "before"}), Ws,
           Lit(QuoteChars), AnyRun, Lit(QuoteChars)>> } >>

RECURSIVE MatchAt(_, _, _, _)
\* items k.. of the alternative match s from position i on
MatchAt(items, k, s, i) ==
    IF k > Len(items) THEN TRUE
    ELSE LET it == items[k] IN
         CASE it.k = "lit" ->
                \E w \in it.a :
                    /\ i + Len(w) - 1 <= Len(s)
                    /\ SubSeq(s, i, i + Len(w) - 1) = w
                    /\ MatchAt(items, k + 1, s, i + Len(w))
           [] it.k = "ws" ->
                \E j \in i..Len(s) :
                    /\ \A m \in i..j : CharAt(s, m) \in SpaceChars
                    /\ MatchAt(items, k + 1, s, j + 1)
           [] it.k = "any" ->
                \E j \in (i - 1)..Len(s) :
                    /\ \A m \in i..j : CharAt(s, m) # "\n"
                    /\ MatchAt(items, k + 1, s, j + 1)

\* re.search(pattern, s)
re_search(pattern, s) ==
    \E items \in pattern : \E i \in 1..(Len(s) + 1) : MatchAt(items, 1, s, i)

\* any(re.search(pattern, question.lower()) for pattern in extraction_patterns)
IsExtractionRequest(question) ==
    \E p \in 1..Len(extraction_patterns) : re_search(extraction_patterns[p], lower(question))

(***************************************************************************)
(* Retriever                                                               *)
(***************************************************************************)
\* set(re.findall(r'\b\w+\b', s)): the maximal runs of word characters
WordTokens(s) ==
    {SubSeq(s, i, j) : <<i, j>> \in
        {p \in (1..Len(s)) \X (1..Len(s)) :
            /\ p[1] <= p[2]
            /\ \A m \in p[1]..p[2] : CharAt(s, m) \in WordChars
            /\ (p[1] = 1 \/ CharAt(s, p[1] - 1) \notin WordChars)
            /\ (p[2] = Len(s) \/ CharAt(s, p[2] + 1) \notin WordChars)}}

\* the number of query words that occur in the lowercased chunk text
ChunkScore(query_words, chunk) ==
    Cardinality({w \in query_words : Contains(lower(chunk.text), w)})

\* chunk_scores.sort(key=score, reverse=True): stable, so equal scores keep index order
SortedIndices(scores) ==
    LET n == Len(scores)
        rank(i) == Cardinality({j \in 1..n : scores[j] > scores[i]})
                   + Cardinality({j \in 1..(i - 1) : scores[j] = scores[i]}) + 1
    IN [p \in 1..n |-> CHOOSE i \in 1..n : rank(i) = p]

Min(a, b) == IF a < b THEN a ELSE b

\* the retrieval without the fallback of lines 169-170
get_relevant_chunks_no_fallback(query, chunks, top_k) ==
    LET query_words == WordTokens(lower(query))
        scores == [i \in 1..Len(chunks) |-> ChunkScore(query_words, chunks[i])]
        order == SortedIndices(scores)
        head == SubSeq(order, 1, Min(top_k, Len(chunks)))
        kept == SelectSeq(head, LAMBDA idx : scores[idx] > 0)
    IN [p \in 1..Len(kept) |-> chunks[kept[p]]]

get_relevant_chunks(query, chunks, top_k) ==
    LET query_words == WordTokens(lower(query))
        scores == [i \in 1..Len(chunks) |-> ChunkScore(query_words, chunks[i])]
        order == SortedIndices(scores)
        head == SubSeq(order, 1, Min(top_k, Len(chunks)))
        kept == SelectSeq(head, LAMBDA idx : scores[idx] > 0)
        top_chunks == [p \in 1..Len(kept) |-> chunks[kept[p]]]
    IN IF top_chunks = <<>> /\ chunks # <<>> THEN <<chunks[1]>> ELSE top_chunks

(***************************************************************************)
(* Inputs: the documents of the sessions and the questions asked           *)
(***************************************************************************)
\* number of browser sessions, each holding its own st.session_state.pdf_chunks
NumSessions == 2
\* number of script threads that can be inside answer_question at once
NumThreads == 2
\* calls that may overlap in time between two quiescent states (concurrent specification)
MaxRoundCalls == 2
\* longest run of overlapping questions from the initial state that is tracked
MaxStreak == 5
\* longest alternating run (fresh, overlapping, fresh, ...) that is tracked
MaxAlt == 8

Sessions == 1..NumSessions
Threads == 1..NumThreads

Chunk(t, p) == [text |-> t, page |-> p]

Documents ==
    << <<Chunk("Alpha beta.", 1), Chunk("Methods use gamma.", 1), Chunk("Results: beta delta.", 2)>>,
       <<Chunk("Omega alpha.", 1), Chunk("Zeta.", 1)>>,
       <<Chunk("Beta only.", 1)>> >>

\* st.session_state.pdf_chunks of session s
pdf_chunks(s) == Documents[((s - 1) % Len(Documents)) + 1]

PlainQuestions == {"alpha?", "Gamma delta", "beta", "zeta"}

PatternQuestions ==
    {"Extract ALL text", "give us  whole pdf", "paste full content",
     "Show me the NEXT part", "continue from here", "what comes after 'alpha'"}

Questions == PlainQuestions \cup PatternQuestions \cup {"extract the entire document"}

MAX_CONSECUTIVE_QUOTES == 3
DEFAULT_TOP_K == 3

Range(seq) == {seq[i] : i \in 1..Len(seq)}

\* [c["text"] for c in relevant_chunks]
Texts(chunks) == [i \in 1..Len(chunks) |-> chunks[i].text]

\* get_relevant_chunks(question, chunks) for every input of the model
Relevant == [s \in Sessions |-> [q \in Questions |-> get_relevant_chunks(q, pdf_chunks(s), DEFAULT_TOP_K)]]

\* the outcome of the pattern test of line 41 for every question of the model
ExtractionRequest == [q \in Questions |-> IsExtractionRequest(q)]

(***************************************************************************)
(* State                                                                   *)
(***************************************************************************)
VARIABLES
    consecutive_quote_requests,  \* module global, secure_qa.py:15
    previous_chunks_provided,    \* module global, secure_qa.py:16
    call,         \* per thread: the answer_question call it is in, or the last one it made
    base,         \* the globals when the current round of calls began (history)
    round_calls,  \* calls begun since the last state with no call in flight (history)
    streak,       \* calls made so far if each overlapped the one before it, else -1 (history)
    alt_len,      \* calls made so far if they alternate fresh/overlapping, else -1 (history)
    alone,        \* the guardrail state that the questions of the session that asked first
                  \* produce on their own (history)
    job           \* the call of a pure function under examination: its arguments, its
                  \* position and its result; NoJob while answer_question is examined

vars == <<consecutive_quote_requests, previous_chunks_provided, call, base, round_calls, streak, alt_len, alone, job>>

globals == <<consecutive_quote_requests, previous_chunks_provided>>

GuardState == [count |-> consecutive_quote_requests, prev |-> previous_chunks_provided]

IdleCall ==
    [pc |-> "idle", session |-> 0, question |-> "", chunk_overlap |-> {}, loaded |-> 0,
     gen |-> 0, genres |-> "none", written |-> <<>>, result |-> "NONE", alone_action |-> "NONE"]

AllIdle == \A t \in Threads : call[t].pc = "idle"

NoJob == [pc |-> "none"]

Init ==
    /\ consecutive_quote_requests = 0
    /\ previous_chunks_provided = <<>>
    /\ call = [t \in Threads |-> IdleCall]
    /\ base = [count |-> 0, prev |-> <<>>]
    /\ round_calls = 0
    /\ streak = 0
    /\ alt_len = 0
    /\ alone = [session |-> 0, count |-> 0, prev |-> <<>>]
    /\ job = NoJob

(***************************************************************************)
(* History of the question sequence                                        *)
(***************************************************************************)
\* streak after a call that finished; ov: its chunks overlapped previous_chunks_provided
NextStreak(ov, pattern) ==
    IF pattern \/ round_calls > 1 \/ streak = -1 \/ streak >= MaxStreak THEN -1
    ELSE IF streak = 0 \/ ov THEN streak + 1
    ELSE -1

\* alt_len after a call that finished: odd calls are fresh, even calls overlap
NextAlt(ov, pattern) ==
    IF pattern \/ round_calls > 1 \/ alt_len = -1 \/ alt_len >= MaxAlt THEN -1
    ELSE IF (alt_len % 2 = 0) = (~ov) THEN alt_len + 1
    ELSE -1

Finished(t, res) ==
    /\ call' = [call EXCEPT ![t].pc = "idle", ![t].result = res]
    /\ streak' = NextStreak(call[t].chunk_overlap # {}, FALSE)
    /\ alt_len' = NextAlt(call[t].chunk_overlap # {}, FALSE)

(***************************************************************************)
(* answer_question(question, chunks), thread t of session s                *)
(***************************************************************************)
\* line 54: set(texts of relevant_chunks) & set(previous_chunks_provided)
ChunkOverlap(relevant_chunks, previous) == Range(Texts(relevant_chunks)) \cap Range(previous)

\* variant: the overlap is not part of the test
ShouldRefuseAtThreshold(chunk_overlap, count) == count >= MAX_CONSECUTIVE_QUOTES

\* variant: the refusal comes only once the counter is above the threshold
ShouldRefuseAboveThreshold(chunk_overlap, count) == chunk_overlap # {} /\ count > MAX_CONSECUTIVE_QUOTES

\* line 55: chunk_overlap and consecutive_quote_requests >= MAX_CONSECUTIVE_QUOTES
ShouldRefuse(chunk_overlap, count) == chunk_overlap # {} /\ count >= MAX_CONSECUTIVE_QUOTES

\* variant: every answered question counts
IncrementAlways(chunk_overlap) == 1

\* line 65: 1 if chunk_overlap else 0
Increment(chunk_overlap) == IF chunk_overlap # {} THEN 1 ELSE 0

\* the guardrail of one whole call (lines 41-65) from guardrail state st
GuardrailStep(st, s, q) ==
    IF ExtractionRequest[q]
    THEN [count |-> st.count, prev |-> st.prev, action |-> "EXTRACTION_POLICY"]
    ELSE LET chunk_overlap == ChunkOverlap(Relevant[s][q], st.prev)
         IN IF ShouldRefuse(chunk_overlap, st.count)
            THEN [count |-> 0, prev |-> st.prev, action |-> "REPETITION"]
            ELSE [count |-> st.count + Increment(chunk_overlap),
                  prev |-> Texts(Relevant[s][q]), action |-> "ANSWER"]

\* alone once calls have overlapped in time: the first session's own run is followed no more
AloneOff == [session |-> -1, count |-> 0, prev |-> <<>>]

\* whether a call of session s that begins now belongs to the run that alone follows
Followed(s) == AllIdle /\ alone.session \in {0, s}

AloneStep(s, q) == GuardrailStep(alone, s, q)

\* lines 18-54: the pattern test, which returns the policy message at once, else the
\* retrieval and the read of previous_chunks_provided
Begin(t, s, q) ==
    /\ call[t].pc = "idle"
    /\ base' = IF AllIdle THEN GuardState ELSE base
    /\ round_calls' = IF AllIdle THEN 1 ELSE round_calls + 1
    /\ UNCHANGED <<globals, job>>
    /\ alone' = IF Followed(s)
                THEN [session |-> s, count |-> AloneStep(s, q).count, prev |-> AloneStep(s, q).prev]
                ELSE IF AllIdle THEN alone ELSE AloneOff
    /\ LET others == IF AllIdle THEN [u \in Threads |-> IdleCall]
                     ELSE [u \in Threads |-> [call[u] EXCEPT !.alone_action = "NONE"]]
           mine == [IdleCall EXCEPT !.session = s, !.question = q,
                                    !.alone_action = IF Followed(s) THEN AloneStep(s, q).action
                                                     ELSE "NONE"]
       IN IF ExtractionRequest[q]
          THEN /\ call' = [others EXCEPT ![t] = [mine EXCEPT !.result = "EXTRACTION_POLICY"]]
               /\ streak' = -1
               /\ alt_len' = -1
          ELSE /\ call' = [others EXCEPT ![t] =
                            [mine EXCEPT !.pc = "L55",
                                         !.chunk_overlap =
                                             ChunkOverlap(Relevant[s][q], previous_chunks_provided)]]
               /\ streak' = IF AllIdle THEN streak ELSE -1
               /\ alt_len' = IF AllIdle THEN alt_len ELSE -1

\* line 55: the test of the repetition refusal, reading the counter
CheckRepetition(t) ==
    /\ call[t].pc = "L55"
    /\ call' = [call EXCEPT ![t].pc =
                   IF ShouldRefuse(call[t].chunk_overlap, consecutive_quote_requests)
                   THEN "L56" ELSE "L64"]
    /\ UNCHANGED <<globals, base, round_calls, streak, alt_len, alone, job>>

\* variant: the refused call also records its chunks
RefuseRepetitionRecording(t) ==
    /\ call[t].pc = "L56"
    /\ consecutive_quote_requests' = 0
    /\ previous_chunks_provided' = Texts(Relevant[call[t].session][call[t].question])
    /\ UNCHANGED <<base, round_calls, alone, job>>
    /\ Finished(t, "REPETITION")

\* lines 56-61: reset the counter and return the repetition refusal
RefuseRepetition(t) ==
    /\ call[t].pc = "L56"
    /\ consecutive_quote_requests' = 0
    /\ UNCHANGED <<previous_chunks_provided, base, round_calls, alone, job>>
    /\ Finished(t, "REPETITION")

\* line 64: previous_chunks_provided = [c["text"] for c in relevant_chunks]
UpdatePrevious(t) ==
    /\ call[t].pc = "L64"
    /\ previous_chunks_provided' = Texts(Relevant[call[t].session][call[t].question])
    /\ call' = [call EXCEPT ![t].pc = "L65load"]
    /\ UNCHANGED <<consecutive_quote_requests, base, round_calls, streak, alt_len, alone, job>>

\* line 65, read half of  consecutive_quote_requests += ...
LoadCounter(t) ==
    /\ call[t].pc = "L65load"
    /\ call' = [call EXCEPT ![t].pc = "L65store", ![t].loaded = consecutive_quote_requests]
    /\ UNCHANGED <<globals, base, round_calls, streak, alt_len, alone, job>>

\* variant: a question without overlap resets the counter
StoreCounterResetting(t) ==
    /\ call[t].pc = "L65store"
    /\ consecutive_quote_requests' = IF call[t].chunk_overlap # {} THEN call[t].loaded + 1 ELSE 0
    /\ call' = [call EXCEPT ![t].pc = "L90"]
    /\ UNCHANGED <<previous_chunks_provided, base, round_calls, streak, alt_len, alone, job>>

\* line 65, write half
StoreCounter(t) ==
    /\ call[t].pc = "L65store"
    /\ consecutive_quote_requests' = call[t].loaded + Increment(call[t].chunk_overlap)
    /\ call' = [call EXCEPT ![t].pc = "L90"]
    /\ UNCHANGED <<previous_chunks_provided, base, round_calls, streak, alt_len, alone, job>>

\* variant: a failed generation is tried once more before the call gives up
CallGeneratorRetrying(t) ==
    /\ call[t].pc = "L90"
    /\ \E r \in {"ok", "raise"} :
          call' = [call EXCEPT ![t].pc = IF r = "ok" THEN "L100"
                                        ELSE IF call[t].gen = 0 THEN "L90" ELSE "L112",
                               ![t].gen = @ + 1,
                               ![t].genres = r,
                               ![t].written = GuardState]
    /\ UNCHANGED <<globals, base, round_calls, streak, alt_len, alone, job>>

\* lines 87-98: the one call of client.chat.completions.create, which returns or raises
CallGenerator(t) ==
    /\ call[t].pc = "L90"
    /\ \E r \in {"ok", "raise"} :
          call' = [call EXCEPT ![t].pc = IF r = "ok" THEN "L100" ELSE "L112",
                               ![t].gen = @ + 1,
                               ![t].genres = r,
                               ![t].written = GuardState]
    /\ UNCHANGED <<globals, base, round_calls, streak, alt_len, alone, job>>

\* lines 100-110: post-process the completion and return it
ReturnAnswer(t) ==
    /\ call[t].pc = "L100"
    /\ UNCHANGED <<globals, base, round_calls, alone, job>>
    /\ Finished(t, "ANSWER")

\* variant: a failed generation takes back the count of the question
ReturnErrorRollingBack(t) ==
    /\ call[t].pc = "L112"
    /\ consecutive_quote_requests' = call[t].loaded
    /\ UNCHANGED <<previous_chunks_provided, base, round_calls, alone, job>>
    /\ Finished(t, "TRY_AGAIN")

\* lines 112-113: except Exception: return "Error generating answer: ... Please try again ..."
ReturnError(t) ==
    /\ call[t].pc = "L112"
    /\ UNCHANGED <<globals, base, round_calls, alone, job>>
    /\ Finished(t, "TRY_AGAIN")

Step(t) ==
    \/ CheckRepetition(t)
    \/ RefuseRepetition(t)
    \/ UpdatePrevious(t)
    \/ LoadCounter(t)
    \/ StoreCounter(t)
    \/ CallGenerator(t)
    \/ ReturnAnswer(t)
    \/ ReturnError(t)

\* one call at a time: a call begins only when no call is in flight
Next ==
    \E t \in Threads :
        \/ AllIdle /\ \E s \in Sessions, q \in Questions : Begin(t, s, q)
        \/ Step(t)

Spec == Init /\ [][Next]_vars

\* calls of different threads interleave at the reads and writes of the globals
NextConcurrent ==
    \E t \in Threads :
        \/ (AllIdle \/ round_calls < MaxRoundCalls) /\ \E s \in Sessions, q \in Questions : Begin(t, s, q)
        \/ Step(t)

SpecConcurrent == Init /\ [][NextConcurrent]_vars

(***************************************************************************)
(* Properties                                                              *)
(***************************************************************************)
Done(t) == call[t].pc = "idle" /\ call[t].result # "NONE"

\* the chunk texts retrieved for the call thread t made
RetrievedTexts(t) == Texts(Relevant[call[t].session][call[t].question])

\* whether those texts intersect the previous-chunk list the call found
OverlappedBase(t) == Range(RetrievedTexts(t)) \cap Range(base.prev) # {}

\* C1: from the initial state, the fourth of four consecutive pattern-free questions that
\* each overlap the chunks of the call before is returned the repetition refusal
C1_FourthOverlappingCallRefused ==
    (AllIdle /\ streak = 4) => \E t \in Threads : call[t].result = "REPETITION"

\* C2: a pattern-free question is returned the repetition refusal exactly when its
\* retrieved texts intersect the previous-chunk list and the counter is at least 3
C2_RepetitionRefusalIff ==
    \A t \in Threads :
        (Done(t) /\ ~ExtractionRequest[call[t].question]) =>
            (call[t].result = "REPETITION" <=> (OverlappedBase(t) /\ base.count >= 3))

C2_Witness ==
    \E t \in Threads : Done(t) /\ call[t].result = "REPETITION" /\ base.count >= 3

\* C3: a repetition refusal leaves the counter at 0 and the previous-chunk list as the
\* refused call found it
C3_RefusalResetsCounterKeepsPrevious ==
    \A t \in Threads :
        (Done(t) /\ call[t].result = "REPETITION") =>
            /\ consecutive_quote_requests = 0
            /\ previous_chunks_provided = base.prev

C3_Witness ==
    \E t \in Threads :
        /\ Done(t)
        /\ call[t].result = "REPETITION"
        /\ RetrievedTexts(t) # base.prev
        /\ previous_chunks_provided = base.prev

\* C4: a call that is not refused leaves the previous-chunk list equal to the texts it
\* retrieved and the counter one higher if they overlapped the list it found, unchanged if not
C4_AnsweredCallUpdate ==
    \A t \in Threads :
        (Done(t) /\ call[t].result \in {"ANSWER", "TRY_AGAIN"}) =>
            /\ previous_chunks_provided = RetrievedTexts(t)
            /\ consecutive_quote_requests = base.count + (IF OverlappedBase(t) THEN 1 ELSE 0)

C4_Witness ==
    \E t \in Threads :
        /\ Done(t)
        /\ call[t].result = "ANSWER"
        /\ ~OverlappedBase(t)
        /\ base.count > 0
        /\ consecutive_quote_requests = base.count

\* the questions the extraction policy is meant to refuse: those the patterns match,
\* and the request to extract the entire document
ExtractionIntent ==
    {q \in Questions : ExtractionRequest[q]} \cup {"extract the entire document"}

\* C5: a question with extraction intent, "extract the entire document" included, is
\* returned the extraction-policy message and leaves the counter and the previous-chunk
\* list as they were
C5_ExtractionIntentRefusedStateless ==
    \A t \in Threads :
        (Done(t) /\ call[t].question \in ExtractionIntent) =>
            /\ call[t].result = "EXTRACTION_POLICY"
            /\ GuardState = base

\* what the guardrail decided, from what the call returned
Decision(result) == IF result \in {"ANSWER", "TRY_AGAIN"} THEN "ANSWER" ELSE result

\* C6: two calls that overlap in time leave the outcomes and the guardrail state of one
\* of the two orders in which they can run one after the other
C6_ConcurrentCallsSerializable ==
    (AllIdle /\ round_calls = 2) =>
        \E t1, t2 \in Threads :
            /\ t1 # t2
            /\ call[t1].result # "NONE"
            /\ call[t2].result # "NONE"
            /\ LET r1 == GuardrailStep(base, call[t1].session, call[t1].question)
                   r2 == GuardrailStep([count |-> r1.count, prev |-> r1.prev],
                                       call[t2].session, call[t2].question)
               IN /\ r1.action = Decision(call[t1].result)
                  /\ r2.action = Decision(call[t2].result)
                  /\ consecutive_quote_requests = r2.count
                  /\ previous_chunks_provided = r2.prev

\* C7: a question of one session is judged as if only the questions of its own session
\* had been asked: with the questions of another session asked in between it is returned
\* the decision that the session's questions alone produce
C7_SessionsIsolated ==
    \A t \in Threads :
        (Done(t) /\ call[t].alone_action # "NONE") =>
            Decision(call[t].result) = call[t].alone_action

\* C8: a call invokes the generator at most once, never on a refusal, and only once the
\* guardrail has written the previous-chunk list and the counter for the question
C8_GeneratorOnceAfterGuardrail ==
    \A t \in Threads :
        /\ call[t].gen <= 1
        /\ call[t].result \in {"EXTRACTION_POLICY", "REPETITION"} => call[t].gen = 0
        /\ call[t].pc \in {"L55", "L56", "L64", "L65load", "L65store", "L90"} => call[t].gen = 0
        /\ call[t].gen = 1 =>
              /\ ~ExtractionRequest[call[t].question]
              /\ ~(OverlappedBase(t) /\ base.count >= 3)
              /\ call[t].written =
                    [count |-> base.count + (IF OverlappedBase(t) THEN 1 ELSE 0),
                     prev |-> RetrievedTexts(t)]

C8_Witness ==
    \E t \in Threads :
        /\ Done(t)
        /\ call[t].gen = 1
        /\ call[t].result = "ANSWER"
        /\ OverlappedBase(t)

\* C9: a call whose generator raised returns the try-again message and leaves the
\* guardrail state as it was written before the generator was invoked
C9_GenerationFailureRecoverable ==
    \A t \in Threads :
        (call[t].pc = "idle" /\ call[t].genres = "raise") =>
            /\ call[t].result = "TRY_AGAIN"
            /\ GuardState = call[t].written

C9_Witness ==
    \E t \in Threads :
        /\ Done(t)
        /\ call[t].genres = "raise"
        /\ call[t].result = "TRY_AGAIN"
        /\ OverlappedBase(t)
        /\ consecutive_quote_requests = base.count + 1

\* C10 as stated: along an alternating question sequence the counter stays below 3 and no
\* repetition refusal is returned
C10_AlternationAvoidsThreshold ==
    alt_len >= 0 =>
        /\ consecutive_quote_requests < 3
        /\ \A t \in Threads : call[t].result # "REPETITION"

\* C10 amended: along every alternating question sequence the counter is the number of
\* overlapping questions asked, so it is 3 after the sixth call, and the eighth call (the
\* fourth overlapping one) is returned the repetition refusal
C10_AlternationReachesThreshold ==
    (AllIdle /\ alt_len >= 0) =>
        /\ alt_len <= 7 =>
              /\ consecutive_quote_requests = alt_len \div 2
              /\ \A t \in Threads : call[t].result # "REPETITION"
        /\ alt_len = 8 =>
              /\ \E t \in Threads : call[t].result = "REPETITION"
              /\ consecutive_quote_requests = 0

C10_Witness ==
    /\ AllIdle
    /\ alt_len = 8
    /\ \E t \in Threads : call[t].result = "REPETITION"

(***************************************************************************)
(* The retriever on its own: get_relevant_chunks applied to every query,   *)
(* chunk list and top_k of a bounded set                                   *)
(***************************************************************************)
\* largest top_k passed to the retriever
MaxTopK == 4

RetrieverQueries == {"alpha beta gamma", "Beta beta", "gamma", "omega zeta", "?!", ""}

RetrieverChunkLists ==
    Range(Documents) \cup
        {<<>>,
         <<Chunk("Beta.", 1), Chunk("Alpha beta.", 1), Chunk("beta gamma", 2),
           Chunk("Alpha beta gamma.", 2)>>}

\* a call of get_relevant_chunks(query, chunks, top_k) about to be made
RetrieverJobs ==
    {[pc |-> "retrieve", query |-> q, chunks |-> c, top_k |-> k, out |-> <<>>] :
        q \in RetrieverQueries, c \in RetrieverChunkLists, k \in 0..MaxTopK}

InitRetriever ==
    /\ consecutive_quote_requests = 0
    /\ previous_chunks_provided = <<>>
    /\ call = [t \in Threads |-> IdleCall]
    /\ base = [count |-> 0, prev |-> <<>>]
    /\ round_calls = 0
    /\ streak = 0
    /\ alt_len = 0
    /\ alone = [session |-> 0, count |-> 0, prev |-> <<>>]
    /\ job \in RetrieverJobs

\* lines 136-172, the whole call
Retrieve ==
    /\ job.pc = "retrieve"
    /\ job' = [job EXCEPT !.pc = "retrieved",
                          !.out = get_relevant_chunks(job.query, job.chunks, job.top_k)]
    /\ UNCHANGED <<globals, call, base, round_calls, streak, alt_len, alone>>

NextRetriever == Retrieve

SpecRetriever == InitRetriever /\ [][NextRetriever]_vars

Retrieved == job.pc = "retrieved"

\* the score of chunk i of the call: the number of distinct lowercase word tokens of the
\* query that occur in the lowercased text of the chunk
JobScore(i) ==
    Cardinality({w \in WordTokens(lower(job.query)) : Contains(lower(job.chunks[i].text), w)})

\* the chunks of the call that score above zero
JobPositive == {i \in 1..Len(job.chunks) : JobScore(i) > 0}

\* C11: the retriever returns at most top_k chunks, for every top_k >= 0
C11_AtMostTopK == Retrieved => Len(job.out) <= job.top_k

\* C12: the retriever never returns an empty list for a non-empty chunk list, and when
\* every chunk scores zero it returns exactly the first chunk
C12_FallbackFirstChunk ==
    (Retrieved /\ job.chunks # <<>>) =>
        /\ job.out # <<>>
        /\ JobPositive = {} => job.out = <<job.chunks[1]>>

C12_Witness ==
    /\ Retrieved
    /\ Len(job.chunks) >= 2
    /\ job.top_k >= 1
    /\ WordTokens(lower(job.query)) # {}
    /\ JobPositive = {}
    /\ job.out = <<job.chunks[1]>>

\* position of chunk i among the positive-score chunks, ordered by score descending with
\* ties in their original order
JobRank(i) ==
    Cardinality({j \in JobPositive : JobScore(j) > JobScore(i)})
    + Cardinality({j \in JobPositive : j < i /\ JobScore(j) = JobScore(i)}) + 1

\* C13: when some chunk scores above zero, the retriever returns exactly the first top_k of
\* the positive-score chunks ordered by score descending, ties in original order
C13_TopKPositiveByScore ==
    (Retrieved /\ JobPositive # {}) =>
        /\ Len(job.out) = Min(job.top_k, Cardinality(JobPositive))
        /\ \A p \in 1..Len(job.out) :
              \E i \in JobPositive : JobRank(i) = p /\ job.out[p] = job.chunks[i]

(***************************************************************************)
(* Chunker: chunk_text, text_chunker.py lines 11-97                        *)
(***************************************************************************)
\* the characters the regex class \d accepts (ASCII)
DecimalDigits == CharsOf("0123456789")

RECURSIVE SkipWhile(_, _, _)
\* the first position at or after i whose character is outside the class (Len(s) + 1 if none)
SkipWhile(s, i, class) ==
    IF i <= Len(s) /\ CharAt(s, i) \in class THEN SkipWhile(s, i + 1, class) ELSE i

\* s[i:].startswith(w)
StartsWithAt(s, i, w) == i + Len(w) - 1 <= Len(s) /\ SubSeq(s, i, i + Len(w) - 1) = w

\* r'---\s*Page\s+\d+\s*---' matched at position i: the position after the match, 0 if no match
PageMarkerEnd(s, i) ==
    IF ~StartsWithAt(s, i, "---") THEN 0
    ELSE LET p2 == SkipWhile(s, i + 3, SpaceChars)
         IN IF ~StartsWithAt(s, p2, "Page") THEN 0
            ELSE LET p3 == SkipWhile(s, p2 + 4, SpaceChars)
                     p4 == SkipWhile(s, p3, DecimalDigits)
                     p5 == SkipWhile(s, p4, SpaceChars)
                 IN IF p3 > p2 + 4 /\ p4 > p3 /\ StartsWithAt(s, p5, "---") THEN p5 + 3 ELSE 0

RECURSIVE SplitPages(_, _, _)
\* re.split of line 26 on s[start:], the search for the next marker being at position i
SplitPages(s, start, i) ==
    LET markers == {j \in i..Len(s) : PageMarkerEnd(s, j) > 0}
    IN IF markers = {} THEN <<SubSeq(s, start, Len(s))>>
       ELSE LET m == CHOOSE j \in markers : \A k \in markers : j <= k
            IN <<SubSeq(s, start, m - 1)>> \o SplitPages(s, PageMarkerEnd(s, m), PageMarkerEnd(s, m))

\* not p.strip()
IsBlank(p) == \A i \in 1..Len(p) : CharAt(p, i) \in SpaceChars

\* lines 26-31: the non-blank pieces between page markers, or the whole text if there is none
Pages(text) ==
    LET pages == SelectSeq(SplitPages(text, 1, 1), LAMBDA p : ~IsBlank(p))
    IN IF pages = <<>> THEN <<text>> ELSE pages

SentenceEnders == {".", "!", "?"}

RECURSIVE SentenceEnd(_, _)
\* the position of the first sentence ender at or after i that ends the text or is followed
\* by white space; Len(s) if there is none
SentenceEnd(s, i) ==
    IF i >= Len(s) THEN Len(s)
    ELSE IF CharAt(s, i) \in SentenceEnders /\ CharAt(s, i + 1) \in SpaceChars THEN i
         ELSE SentenceEnd(s, i + 1)

RECURSIVE rstrip(_)
rstrip(s) ==
    IF s # "" /\ CharAt(s, Len(s)) \in SpaceChars THEN rstrip(SubSeq(s, 1, Len(s) - 1)) ELSE s

RECURSIVE sent_tokenize(_)
\* nltk.tokenize.sent_tokenize(page_text) when the punkt model is loaded: the sentences of
\* the text without the white space between them; a sentence ends at '.', '!' or '?'
\* followed by white space, or at the end of the text
sent_tokenize(s) ==
    LET a == SkipWhile(s, 1, SpaceChars)
        e == SentenceEnd(s, a)
    IN IF a > Len(s) THEN <<>>
       ELSE <<rstrip(SubSeq(s, a, e))>> \o sent_tokenize(SubSeq(s, e + 1, Len(s)))

\* the defaults of max_chunk_size and overlap
DEFAULT_MAX_CHUNK_SIZE == 1000
DEFAULT_OVERLAP == 200

\* line 40: the offset inside the page, set once per page and never advanced
page_position == 0

RECURSIVE Concat(_)
\* ''.join(strings)
Concat(strings) == IF strings = <<>> THEN "" ELSE strings[1] \o Concat(Tail(strings))

\* line 51: the sentence does not fit into the running chunk, which has content
Overflows(current_chunk, sentence, max_chunk_size) ==
    Len(current_chunk) + Len(sentence) > max_chunk_size /\ current_chunk # ""

\* lines 53-59 and 85-91
ChunkData(current_chunk, page_idx, current_position, current_chunk_sentences) ==
    [text |-> current_chunk,
     page |-> page_idx + 1,
     start_char |-> current_position + page_position - Len(current_chunk),
     end_char |-> current_position + page_position,
     sentences |-> current_chunk_sentences]

\* no overlap budget at all
RemainingOverlapNone(overlap, current_chunk) == 0

\* line 63
RemainingOverlap(overlap, current_chunk) == Min(overlap, Len(current_chunk))

\* every sentence is carried over, whatever the budget
FitsAlways(s, remaining_overlap) == TRUE

\* line 66
Fits(s, remaining_overlap) == Len(s) <= remaining_overlap

RECURSIVE OverlapSentences(_, _, _)
\* lines 65-71: the loop over reversed(current_chunk_sentences), at sentence n; a sentence
\* that does not fit is passed over and the loop goes on to the sentences before it
OverlapSentences(sentences, n, remaining_overlap) ==
    IF n = 0 THEN <<>>
    ELSE IF Fits(sentences[n], remaining_overlap)
         THEN IF remaining_overlap - Len(sentences[n]) <= 0
              THEN <<sentences[n]>>
              ELSE Append(OverlapSentences(sentences, n - 1, remaining_overlap - Len(sentences[n])),
                          sentences[n])
         ELSE OverlapSentences(sentences, n - 1, remaining_overlap)

RECURSIVE SentenceLoop(_, _, _, _, _, _, _)
\* lines 48-81: the loop over the sentences of a page, at sentence k.  st holds the running
\* chunk, the chunks emitted so far and, as history, the overlap sentences each chunk was
\* seeded with
SentenceLoop(sentences, k, st, page_idx, current_position, max_chunk_size, overlap) ==
    IF k > Len(sentences) THEN st
    ELSE LET sentence == sentences[k]
             overlap_sentences ==
                 OverlapSentences(st.current_chunk_sentences, Len(st.current_chunk_sentences),
                                  RemainingOverlap(overlap, st.current_chunk))
             started ==
                 IF Overflows(st.current_chunk, sentence, max_chunk_size)
                 THEN [current_chunk |-> Concat(overlap_sentences),
                       current_chunk_sentences |-> overlap_sentences,
                       seed |-> overlap_sentences,
                       chunks |-> Append(st.chunks, ChunkData(st.current_chunk, page_idx, current_position,
                                                              st.current_chunk_sentences)),
                       seeds |-> Append(st.seeds, st.seed)]
                 ELSE st
         IN SentenceLoop(sentences, k + 1,
                         [started EXCEPT !.current_chunk = @ \o sentence,
                                         !.current_chunk_sentences = Append(@, sentence)],
                         page_idx, current_position, max_chunk_size, overlap)

\* the page ends without its last chunk being emitted
LastChunkDropped(st, page_idx, current_position) == [chunks |-> st.chunks, seeds |-> st.seeds]

\* lines 83-92: the last chunk of the page
LastChunk(st, page_idx, current_position) ==
    IF st.current_chunk # ""
    THEN [chunks |-> Append(st.chunks, ChunkData(st.current_chunk, page_idx, current_position,
                                                 st.current_chunk_sentences)),
          seeds |-> Append(st.seeds, st.seed)]
    ELSE [chunks |-> st.chunks, seeds |-> st.seeds]

RECURSIVE PageLoop(_, _, _, _, _, _)
\* lines 35-95: the loop over the pages, at page index page_idx (from 0)
PageLoop(pages, page_idx, current_position, out, max_chunk_size, overlap) ==
    IF page_idx >= Len(pages) THEN out
    ELSE LET page_text == pages[page_idx + 1]
             st == SentenceLoop(sent_tokenize(page_text), 1,
                                [current_chunk |-> "", current_chunk_sentences |-> <<>>, seed |-> <<>>,
                                 chunks |-> out.chunks, seeds |-> out.seeds],
                                page_idx, current_position, max_chunk_size, overlap)
         IN IF IsBlank(page_text)
            THEN PageLoop(pages, page_idx + 1, current_position, out, max_chunk_size, overlap)
            ELSE PageLoop(pages, page_idx + 1, current_position + Len(page_text),
                          LastChunk(st, page_idx, current_position), max_chunk_size, overlap)

\* chunk_text when sent_tokenize returns: the chunks, and the overlap sentences each chunk
\* was seeded with (history)
chunk_text(text, max_chunk_size, overlap) ==
    PageLoop(Pages(text), 0, 0, [chunks |-> <<>>, seeds |-> <<>>], max_chunk_size, overlap)

\* line 43 is reached: some page is not blank
CallsTokenizer(text) == \E i \in 1..Len(Pages(text)) : ~IsBlank(Pages(text)[i])

(***************************************************************************)
(* The chunker on its own: chunk_text applied to every text, chunk size    *)
(* and overlap of a bounded set                                            *)
(***************************************************************************)
\* most sentences on the first page of a text
MaxSentences == 4

ChunkerSentences == {"A.", "Bbbbbb.", "C."}

SentenceLists == UNION {[1..n -> ChunkerSentences] : n \in 0..MaxSentences}

SecondPages == {<<"A.">>, <<"Bbbbbb.", "C.">>}

RECURSIVE JoinSentences(_)
\* ' '.join(sentences)
JoinSentences(sentences) ==
    IF sentences = <<>> THEN ""
    ELSE IF Len(sentences) = 1 THEN sentences[1]
         ELSE sentences[1] \o " " \o JoinSentences(Tail(sentences))

\* the text the PDF extraction writes for page n
PageText(n, sentences) == "--- Page " \o <<"1", "2">>[n] \o " ---\n" \o JoinSentences(sentences)

ScenarioText == "--- Page 1 ---\nA. B. C."

ChunkerTexts ==
    {PageText(1, a) : a \in SentenceLists}
    \cup {PageText(1, a) \o "\n" \o PageText(2, b) : a \in SentenceLists, b \in SecondPages}
    \cup {ScenarioText, "A. C.", ""}

ChunkSizes == {5, 11, DEFAULT_MAX_CHUNK_SIZE}

Overlaps == {0, 4, DEFAULT_OVERLAP}

\* a call of chunk_text(text, max_chunk_size, overlap) about to be made; punkt tells whether
\* the punkt model of lines 5-9 can be loaded, i.e. whether sent_tokenize returns or raises
\* LookupError
ChunkerJobs ==
    {[pc |-> "chunk", text |-> t, max_chunk_size |-> m, overlap |-> o, punkt |-> b,
      raised |-> FALSE, chunks |-> <<>>, seeds |-> <<>>] :
        t \in ChunkerTexts, m \in ChunkSizes, o \in Overlaps, b \in BOOLEAN}

InitChunker ==
    /\ consecutive_quote_requests = 0
    /\ previous_chunks_provided = <<>>
    /\ call = [t \in Threads |-> IdleCall]
    /\ base = [count |-> 0, prev |-> <<>>]
    /\ round_calls = 0
    /\ streak = 0
    /\ alt_len = 0
    /\ alone = [session |-> 0, count |-> 0, prev |-> <<>>]
    /\ job \in ChunkerJobs

\* lines 11-97, the whole call: sent_tokenize returns for every page
ChunkTextReturns ==
    /\ job.pc = "chunk"
    /\ job.punkt \/ ~CallsTokenizer(job.text)
    /\ job' = [job EXCEPT !.pc = "chunked",
                          !.chunks = chunk_text(job.text, job.max_chunk_size, job.overlap).chunks,
                          !.seeds = chunk_text(job.text, job.max_chunk_size, job.overlap).seeds]
    /\ UNCHANGED <<globals, call, base, round_calls, streak, alt_len, alone>>

\* lines 11-43: sent_tokenize raises at the first page that is not blank; nothing in
\* chunk_text catches it, so the call raises and returns no chunks
ChunkTextRaises ==
    /\ job.pc = "chunk"
    /\ ~job.punkt /\ CallsTokenizer(job.text)
    /\ job' = [job EXCEPT !.pc = "chunked", !.raised = TRUE]
    /\ UNCHANGED <<globals, call, base, round_calls, streak, alt_len, alone>>

NextChunker == ChunkTextReturns \/ ChunkTextRaises

SpecChunker == InitChunker /\ [][NextChunker]_vars

\* chunk_text has returned its chunks
Chunked == job.pc = "chunked" /\ ~job.raised

\* the sentences chunk i holds besides the ones it was seeded with
FreshSentences(i) ==
    SubSeq(job.chunks[i].sentences, Len(job.seeds[i]) + 1, Len(job.chunks[i].sentences))

RECURSIVE FreshOfPage(_, _)
\* the fresh sentences of the chunks 1..n that are tagged page p, in order
FreshOfPage(p, n) ==
    IF n = 0 THEN <<>>
    ELSE FreshOfPage(p, n - 1) \o (IF job.chunks[n].page = p THEN FreshSentences(n) ELSE <<>>)

IsPrefix(a, b) == Len(a) <= Len(b) /\ SubSeq(b, 1, Len(a)) = a

IsSuffix(a, b) == Len(a) <= Len(b) /\ SubSeq(b, Len(b) - Len(a) + 1, Len(b)) = a

\* C14: every sentence of every non-empty page is in a chunk of the page, and the sentence
\* lists of the page's chunks, each without the overlap prefix it was seeded with,
\* concatenate to the sentence sequence of the page
C14_ChunkCoverage ==
    Chunked =>
        /\ \A i \in 1..Len(job.chunks) : IsPrefix(job.seeds[i], job.chunks[i].sentences)
        /\ \A p \in 1..Len(Pages(job.text)) :
              LET sentences == sent_tokenize(Pages(job.text)[p])
              IN /\ FreshOfPage(p, Len(job.chunks)) = sentences
                 /\ \A k \in 1..Len(sentences) :
                       \E i \in 1..Len(job.chunks) :
                           /\ job.chunks[i].page = p
                           /\ sentences[k] \in Range(job.chunks[i].sentences)

C14_Witness ==
    /\ Chunked
    /\ Len(Pages(job.text)) = 2
    /\ Len(sent_tokenize(Pages(job.text)[1])) = 4
    /\ \E i, j \in 1..Len(job.chunks) :
          /\ i < j
          /\ job.chunks[i].page = 1 /\ job.chunks[j].page = 1
          /\ job.seeds[j] # <<>>
    /\ \E i \in 1..Len(job.chunks) : job.chunks[i].page = 2

\* C15: the sentences a chunk is seeded with have a total length of at most overlap
C15_OverlapBound ==
    Chunked => \A i \in 1..Len(job.chunks) : Len(Concat(job.seeds[i])) <= job.overlap

C15_Witness ==
    /\ Chunked
    /\ \E i \in 2..Len(job.chunks) :
          /\ job.seeds[i] # <<>>
          /\ Len(Concat(job.seeds[i])) = job.overlap
          /\ Len(job.seeds[i]) < Len(job.chunks[i - 1].sentences)

\* C16: the sentences a chunk is seeded with are a contiguous suffix of the sentence list of
\* the chunk closed before it
C16_OverlapIsSuffix ==
    Chunked =>
        \A i \in 1..Len(job.chunks) :
            job.seeds[i] # <<>> => (i > 1 /\ IsSuffix(job.seeds[i], job.chunks[i - 1].sentences))

\* C17: when sentence splitting raises, chunk_text still returns: one chunk per page that
\* holds the whole text of the page
C17_SplitterFailureDegrades ==
    (job.pc = "chunked" /\ ~job.punkt /\ CallsTokenizer(job.text)) =>
        /\ ~job.raised
        /\ Len(job.chunks) = Len(Pages(job.text))
        /\ \A p \in 1..Len(job.chunks) :
              job.chunks[p].text = Pages(job.text)[p] /\ job.chunks[p].page = p

\* the call chunk_text("--- Page 1 ---\nA. B. C.", max_chunk_size=5) has returned
ScenarioChunked ==
    /\ Chunked
    /\ job.punkt
    /\ job.text = ScenarioText
    /\ job.max_chunk_size = 5
    /\ job.overlap = DEFAULT_OVERLAP

MAX_QUOTE_LENGTH == 150

Quote == "\""

\* the positions of the quote characters of s
QuotePositions(s) == {i \in 1..Len(s) : CharAt(s, i) = Quote}

\* the first quote character at or after position i, 0 if there is none
NextQuote(s, i) ==
    LET later == {q \in QuotePositions(s) : q >= i}
    IN IF later = {} THEN 0 ELSE CHOOSE q \in later : \A r \in later : q <= r

RECURSIVE FindLongQuotes(_, _)
\* re.findall(r'"([^"]{150,})"', s), the scan being at position i: a match opens at a quote
\* character that at least MAX_QUOTE_LENGTH other characters separate from the next quote
\* character, and the scan resumes after the closing quote of a match
FindLongQuotes(s, i) ==
    LET a == NextQuote(s, i)
        b == IF a = 0 THEN 0 ELSE NextQuote(s, a + 1)
    IN IF a = 0 \/ b = 0 THEN <<>>
       ELSE IF b - a - 1 >= MAX_QUOTE_LENGTH
            THEN <<SubSeq(s, a + 1, b - 1)>> \o FindLongQuotes(s, b + 1)
            ELSE FindLongQuotes(s, a + 1)

\* s.find(old): the first position at which old occurs in s, 0 if it does not occur
Find(s, old) ==
    LET hits == {i \in 1..Len(s) : CharAt(s, i) = CharAt(old, 1) /\ StartsWithAt(s, i, old)}
    IN IF hits = {} THEN 0 ELSE CHOOSE i \in hits : \A j \in hits : i <= j

RECURSIVE replace(_, _, _)
\* s.replace(old, new): every occurrence of old, found from left to right without overlap
replace(s, old, new) ==
    IF Find(s, old) = 0 THEN s
    ELSE SubSeq(s, 1, Find(s, old) - 1) \o new
         \o replace(SubSeq(s, Find(s, old) + Len(old), Len(s)), old, new)

\* line 107: long_quote[:MAX_QUOTE_LENGTH-3] + "..."
truncated_quote(long_quote) == SubSeq(long_quote, 1, Min(MAX_QUOTE_LENGTH - 3, Len(long_quote))) \o "..."

RECURSIVE TruncateLoop(_, _, _)
\* lines 106-108: the loop over long_quotes, at element k
TruncateLoop(answer, long_quotes, k) ==
    IF k > Len(long_quotes) THEN answer
    ELSE TruncateLoop(replace(answer, Quote \o long_quotes[k] \o Quote,
                              Quote \o truncated_quote(long_quotes[k]) \o Quote),
                      long_quotes, k + 1)

\* lines 102-110: the answer that answer_question returns for the answer of the generator
truncate_long_quotes(answer) == TruncateLoop(answer, FindLongQuotes(answer, 1), 1)

(***************************************************************************)
(* The post-processing on its own: applied to every answer of a bounded    *)
(* set, and once more to its own result                                    *)
(***************************************************************************)
\* most texts between consecutive quote characters in an answer of the generator
MaxGaps == 3

RECURSIVE Rep(_, _)
\* c * n
Rep(c, n) ==
    IF n = 0 THEN ""
    ELSE IF n % 2 = 1 THEN c \o Rep(c, n - 1)
         ELSE LET half == Rep(c, n \div 2) IN half \o half

\* the texts found between two quote characters: a short one, one of exactly
\* MAX_QUOTE_LENGTH characters and two longer ones
QuoteContents ==
    {"ok", Rep("x", MAX_QUOTE_LENGTH), Rep("a", MAX_QUOTE_LENGTH + 1), Rep("b", MAX_QUOTE_LENGTH + 10)}

RECURSIVE QuoteJoin(_)
\* the texts, each followed by a quote character
QuoteJoin(gaps) == IF gaps = <<>> THEN "" ELSE gaps[1] \o Quote \o QuoteJoin(Tail(gaps))

\* response.choices[0].message.content, line 100
GeneratedAnswers ==
    {"No quote."} \cup
    {"Answer: " \o Quote \o QuoteJoin(gaps) : gaps \in UNION {[1..n -> QuoteContents] : n \in 0..MaxGaps}}

\* the post-processing about to be applied to an answer of the generator
PostProcessJobs == {[pc |-> "generated", answer |-> a, out |-> "", again |-> ""] : a \in GeneratedAnswers}

InitPostProcess ==
    /\ consecutive_quote_requests = 0
    /\ previous_chunks_provided = <<>>
    /\ call = [t \in Threads |-> IdleCall]
    /\ base = [count |-> 0, prev |-> <<>>]
    /\ round_calls = 0
    /\ streak = 0
    /\ alt_len = 0
    /\ alone = [session |-> 0, count |-> 0, prev |-> <<>>]
    /\ job \in PostProcessJobs

\* lines 100-110: the answer of the generator is post-processed and returned
PostProcess ==
    /\ job.pc = "generated"
    /\ job' = [job EXCEPT !.pc = "returned", !.out = truncate_long_quotes(job.answer)]
    /\ UNCHANGED <<globals, call, base, round_calls, streak, alt_len, alone>>

\* lines 102-110 applied to the answer that was returned
PostProcessAgain ==
    /\ job.pc = "returned"
    /\ job' = [job EXCEPT !.pc = "reapplied", !.again = truncate_long_quotes(job.out)]
    /\ UNCHANGED <<globals, call, base, round_calls, streak, alt_len, alone>>

NextPostProcess == PostProcess \/ PostProcessAgain

SpecPostProcess == InitPostProcess /\ [][NextPostProcess]_vars

\* C19: the quote truncation is idempotent: applied to its own output it changes nothing
C19_TruncationIdempotent == job.pc = "reapplied" => job.again = job.out

\* C20: the returned answer holds no double-quoted span, as the left-to-right scan for
\* quoted spans of at least MAX_QUOTE_LENGTH characters finds them, whose content is longer
\* than MAX_QUOTE_LENGTH
C20_NoLongQuoteInOutput ==
    job.pc \in {"returned", "reapplied"} =>
        \A k \in 1..Len(FindLongQuotes(job.out, 1)) :
            Len(FindLongQuotes(job.out, 1)[k]) <= MAX_QUOTE_LENGTH

\* the texts between consecutive quote characters of s, from left to right
Gaps(s) ==
    LET qp == QuotePositions(s)
        q(k) == CHOOSE a \in qp : Cardinality({r \in qp : r < a}) = k - 1
    IN [k \in 1..(Cardinality(qp) - 1) |-> SubSeq(s, q(k) + 1, q(k + 1) - 1)]

\* the text before the first quote character of s, all of s if it has none
BeforeQuotes(s) == IF NextQuote(s, 1) = 0 THEN s ELSE SubSeq(s, 1, NextQuote(s, 1) - 1)

RECURSIVE SelectedGaps(_, _)
\* the spans the scan of line 104 selects, as indices into Gaps, the scan being at gap i: a
\* gap of at least MAX_QUOTE_LENGTH characters is selected and its closing quote opens no span
SelectedGaps(gaps, i) ==
    IF i > Len(gaps) THEN {}
    ELSE IF Len(gaps[i]) >= MAX_QUOTE_LENGTH THEN {i} \cup SelectedGaps(gaps, i + 2)
         ELSE SelectedGaps(gaps, i + 1)

PostProcessed == job.pc \in {"returned", "reapplied"}

\* C21: every span selected for truncation is replaced by its first MAX_QUOTE_LENGTH - 3
\* characters followed by '...', MAX_QUOTE_LENGTH characters in all, between the same
\* quotation marks
C21_SelectedSpansTruncated ==
    PostProcessed =>
        /\ Len(Gaps(job.out)) = Len(Gaps(job.answer))
        /\ \A g \in SelectedGaps(Gaps(job.answer), 1) :
              /\ Gaps(job.out)[g] = SubSeq(Gaps(job.answer)[g], 1, MAX_QUOTE_LENGTH - 3) \o "..."
              /\ Len(Gaps(job.out)[g]) = MAX_QUOTE_LENGTH

\* C22: a double-quoted span of at most MAX_QUOTE_LENGTH characters, and the text outside
\* the quoted spans, is returned unchanged
C22_ShortSpansUnchanged ==
    PostProcessed =>
        /\ BeforeQuotes(job.out) = BeforeQuotes(job.answer)
        /\ Len(Gaps(job.out)) = Len(Gaps(job.answer))
        /\ \A g \in 1..Len(Gaps(job.answer)) :
              Len(Gaps(job.answer)[g]) <= MAX_QUOTE_LENGTH => Gaps(job.out)[g] = Gaps(job.answer)[g]

\* C27: every emitted chunk is at most max_chunk_size characters long, unless it is a single
\* sentence that is itself longer than max_chunk_size
C27_ChunkWithinMaxSize ==
    Chunked =>
        \A i \in 1..Len(job.chunks) :
            \/ Len(job.chunks[i].text) <= job.max_chunk_size
            \/ /\ Len(job.chunks[i].sentences) = 1
               /\ Len(job.chunks[i].sentences[1]) > job.max_chunk_size

\* C28: start_char and end_char of every emitted chunk delimit a range of the document as
\* long as the chunk: start_char >= 0, end_char - start_char = len(text), and the text is the
\* concatenation of the chunk's sentences
C28_CharRangeValid ==
    Chunked =>
        \A i \in 1..Len(job.chunks) :
            /\ job.chunks[i].start_char >= 0
            /\ job.chunks[i].end_char - job.chunks[i].start_char = Len(job.chunks[i].text)
            /\ job.chunks[i].text = Concat(job.chunks[i].sentences)

\* C29: for calls made one after another the counter stays within 0..MAX_CONSECUTIVE_QUOTES:
\* a call adds 1 only when it found the counter below the threshold, and a call that finds it
\* at the threshold with overlap resets it
C29_CounterWithinThreshold ==
    /\ consecutive_quote_requests \in 0..MAX_CONSECUTIVE_QUOTES
    /\ \A t \in Threads :
          /\ call[t].pc = "L65store" =>
                (call[t].loaded < MAX_CONSECUTIVE_QUOTES \/ call[t].chunk_overlap = {})
          /\ (call[t].result = "REPETITION" /\ AllIdle) => consecutive_quote_requests = 0

C29_Witness ==
    /\ AllIdle
    /\ consecutive_quote_requests = MAX_CONSECUTIVE_QUOTES
    /\ \E t \in Threads : call[t].result = "ANSWER" /\ OverlappedBase(t)

(***************************************************************************)
(* Vault: encryption.py.  A Python str is a sequence of code points and a  *)
(* bytes object a sequence of byte values, so that an identifier can hold  *)
(* any character (the NUL character included).                             *)
(***************************************************************************)
\* ord(c) for the ASCII characters the identifiers and the paths use
Ord(c) ==
    IF c \in CharsOf("0123456789")
    THEN 47 + (CHOOSE i \in 1..10 : CharAt("0123456789", i) = c)
    ELSE IF c \in CharsOf(UpperLetters)
    THEN 64 + (CHOOSE i \in 1..26 : CharAt(UpperLetters, i) = c)
    ELSE IF c \in CharsOf(LowerLetters)
    THEN 96 + (CHOOSE i \in 1..26 : CharAt(LowerLetters, i) = c)
    ELSE CASE c = "-" -> 45 [] c = "." -> 46 [] c = "/" -> 47 [] c = "_" -> 95

\* the Python str whose characters are those of the literal s
PyStr(s) == [i \in 1..Len(s) |-> Ord(CharAt(s, i))]

\* the UTF-8 bytes of one code point (below 2048)
Utf8Char(cp) == IF cp < 128 THEN <<cp>> ELSE <<192 + (cp \div 64), 128 + (cp % 64)>>

RECURSIVE encode(_)
\* str.encode()
encode(str) == IF str = <<>> THEN <<>> ELSE Utf8Char(Head(str)) \o encode(Tail(str))

\* the block size of HMAC-SHA256, in bytes
HMAC_BLOCK_SIZE == 64

\* the key HMAC works with: a password no longer than a block is padded with zero bytes
HmacKey(password) == password \o [i \in 1..(HMAC_BLOCK_SIZE - Len(password)) |-> 0]

\* PBKDF2HMAC(SHA256, ...).derive(password): a function of the salt and of the HMAC key
Pbkdf2(salt, password) == [salt |-> salt, hmac_key |-> HmacKey(password)]

\* os.environ.get('ENCRYPTION_SALT', 'secure-evaluator-salt'); the empty env is the variable unset
EnvSalt(env) == IF env = "" THEN "secure-evaluator-salt" ELSE env

\* generate_key_from_id (lines 10-25) in a process whose ENCRYPTION_SALT is env
generate_key_from_id(assignment_id, env) == Pbkdf2(encode(PyStr(EnvSalt(env))), encode(assignment_id))

\* Fernet(key).encrypt(data): the token authenticates data under key
FernetEncrypt(key, data) == [key |-> key, data |-> data, intact |-> TRUE]

\* a token some bytes of which were changed after encryption
Tampered(token) == [token EXCEPT !.intact = FALSE]

InvalidToken == [raised |-> "InvalidToken"]

\* Fernet(key).decrypt(token): the data, or InvalidToken when the HMAC does not verify
FernetDecrypt(key, token) ==
    IF token.intact /\ token.key = key THEN [raised |-> "", data |-> token.data] ELSE InvalidToken

\* encrypt_file (lines 27-32)
encrypt_file(file_data, assignment_id, env) ==
    FernetEncrypt(generate_key_from_id(assignment_id, env), file_data)

\* decrypt_file (lines 34-39)
decrypt_file(encrypted_data, assignment_id, env) ==
    FernetDecrypt(generate_key_from_id(assignment_id, env), encrypted_data)

(***************************************************************************)
(* Python values and JSON.  A value is a record whose one field names its  *)
(* type; a dict is the sequence of its <<key, value>> pairs in insertion   *)
(* order.  The JSON document stands for the text json.dumps writes.        *)
(***************************************************************************)
StrValue(s) == [str |-> s]
IntValue(n) == [int |-> n]
ListValue(items) == [list |-> items]
TupleValue(items) == [tuple |-> items]
DictValue(pairs) == [dict |-> pairs]

IsA(v, type) == type \in DOMAIN v

RECURSIVE str_int(_)
\* str(n) for n >= 0
str_int(n) ==
    IF n < 10 THEN CharAt("0123456789", n + 1)
    ELSE str_int(n \div 10) \o CharAt("0123456789", (n % 10) + 1)

\* the key json.dumps writes for a dict key: JSON object keys are strings
KeyString(k) == IF IsA(k, "str") THEN k.str ELSE str_int(k.int)

RECURSIVE dumps(_)
\* json.dumps(data)
dumps(v) ==
    IF IsA(v, "str") THEN [jstring |-> v.str]
    ELSE IF IsA(v, "int") THEN [jnumber |-> v.int]
    ELSE IF IsA(v, "list") THEN [jarray |-> [i \in 1..Len(v.list) |-> dumps(v.list[i])]]
    ELSE IF IsA(v, "tuple") THEN [jarray |-> [i \in 1..Len(v.tuple) |-> dumps(v.tuple[i])]]
    ELSE [jobject |-> [i \in 1..Len(v.dict) |-> <<KeyString(v.dict[i][1]), dumps(v.dict[i][2])>>]]

\* the dict a JSON object is parsed to: a repeated key keeps its first place and its last value
ObjectPairs(pairs) ==
    LET first(i) == \A j \in 1..(i - 1) : pairs[j][1] # pairs[i][1]
        last(i) == CHOOSE j \in i..Len(pairs) :
                       /\ pairs[j][1] = pairs[i][1]
                       /\ \A k \in (j + 1)..Len(pairs) : pairs[k][1] # pairs[i][1]
        kept == SelectSeq([i \in 1..Len(pairs) |-> i], first)
    IN [p \in 1..Len(kept) |-> <<pairs[kept[p]][1], pairs[last(kept[p])][2]>>]

RECURSIVE loads(_)
\* json.loads(text)
loads(j) ==
    IF "jstring" \in DOMAIN j THEN StrValue(j.jstring)
    ELSE IF "jnumber" \in DOMAIN j THEN IntValue(j.jnumber)
    ELSE IF "jarray" \in DOMAIN j THEN ListValue([i \in 1..Len(j.jarray) |-> loads(j.jarray[i])])
    ELSE LET pairs == ObjectPairs(j.jobject)
         IN DictValue([i \in 1..Len(pairs) |-> <<StrValue(pairs[i][1]), loads(pairs[i][2])>>])

\* encrypt_data (lines 41-45)
encrypt_data(data, assignment_id, env) == encrypt_file(dumps(data), assignment_id, env)

\* decrypt_data (lines 47-50): an exception of decrypt_file passes through
decrypt_data(encrypted_data, assignment_id, env) ==
    LET decrypted == decrypt_file(encrypted_data, assignment_id, env)
    IN IF decrypted.raised # "" THEN decrypted
       ELSE [raised |-> "", data |-> loads(decrypted.data)]

(***************************************************************************)
(* Stored files: encryption.secure_file_path and the two writers of        *)
(* app.py (candidate_mode for the uploaded PDF, save_assignment_data for   *)
(* the bundle), and the reader load_assignment_data.                       *)
(***************************************************************************)
\* hashlib.sha256(data).hexdigest(): the SHA-256 digests of the identifiers of the model
sha256_hexdigest(data) ==
    CASE data = encode(PyStr("Ab3x_-Zq")) ->
             "88fbc76253c746b3de62fa492b5a4c268f67e73e52f78f726c5f42d715d108fe"
      [] data = encode(PyStr("Qm9vS2V5")) ->
             "d587f085c6d1a62fcc0a46a7950a5ee23ea481b0acde6731395c8434efa932ac"
      [] data = encode(PyStr("Ab3x_-Zq")) \o <<0>> ->
             "c6b8c157094878e6ee43847058f285e5932a79313415d7ac6ea9bcb31b238f0b"

\* os.path.join(a, b) for a relative b (POSIX)
os_path_join(a, b) == a \o PyStr("/") \o b

\* secure_file_path (lines 52-56)
secure_file_path(assignment_id) ==
    os_path_join(PyStr("data"), PyStr(sha256_hexdigest(encode(assignment_id))) \o PyStr(".enc"))

\* os.getcwd() of the process
getcwd == PyStr("/app")

\* st.session_state.assignments_dir (app.py lines 62-67)
assignments_dir == os_path_join(getcwd, PyStr("data"))

\* pdf_storage_path of candidate_mode (app.py lines 552-555)
pdf_storage_path(assignment_id) == os_path_join(assignments_dir, assignment_id \o PyStr("_pdf.enc"))

\* the file of the set stored under path, as a set of at most one file
FileAt(files, path) == {f \in files : f.path = path}

\* open(path, 'wb').write(...): the file replaces the one stored under the same path
WriteFile(files, f) == (files \ FileAt(files, f.path)) \cup {f}

\* what load_assignment_data returns and what it shows: lines 144-160 and 226-229
LoadOutcome(returned, errors) == [returned |-> returned, errors |-> errors]

\* variant: the handler of line 227 shows nothing
LoadErrorSilent(message) == LoadOutcome(FALSE, <<>>)

\* lines 227-229: st.error(f"Error loading assignment: {e}"); return False
LoadError(message) == LoadOutcome(FALSE, <<"Error loading assignment: " \o message>>)

\* str(e) of the exceptions of the model: InvalidToken carries no message
ExceptionText(raised) == ""

\* load_assignment_data (lines 144-160, 208-210, 226-229) on the stored files
load_assignment_data(files, assignment_id, env) ==
    LET stored == FileAt(files, secure_file_path(assignment_id))
    IN IF stored = {} THEN LoadOutcome(FALSE, <<>>)
       ELSE LET assignment_data ==
                    decrypt_data((CHOOSE f \in stored : TRUE).token, assignment_id, env)
            IN IF assignment_data.raised # ""
               THEN LoadError(ExceptionText(assignment_data.raised))
               ELSE LoadOutcome(TRUE, <<>>)

(***************************************************************************)
(* The vault as a state machine: the files of the data directory, the      *)
(* ENCRYPTION_SALT of the running process and the identifier of the        *)
(* session, held in job.  The suggested-questions prompt of a successful   *)
(* load is the Load action of SpecApp.                                      *)
(***************************************************************************)
\* base64.urlsafe_b64encode(os.urandom(6)): the identifier the application generates
GeneratedIds == {PyStr("Ab3x_-Zq")}

\* the identifiers a caller can supply: the generated one, a different one of the same
\* form, and the generated one followed by a NUL character
SuppliedIds == GeneratedIds \cup {PyStr("Qm9vS2V5"), PyStr("Ab3x_-Zq") \o <<0>>}

\* the values of ENCRYPTION_SALT: unset, and set
Environments == {"", "other-salt"}

\* uploaded_file.getvalue(): the bytes of the uploaded PDF
PdfData == {[bytes |-> "%PDF-1.7 alpha"]}

\* assignment_data of save_assignment_data (lines 116-124) for the tables and charts given
AssignmentData(tables, charts) ==
    DictValue(<< <<StrValue("id"), StrValue("Ab3x_-Zq")>>,
                 <<StrValue("pdf_text"), StrValue("Alpha beta.")>>,
                 <<StrValue("pdf_chunks"),
                   ListValue(<<DictValue(<< <<StrValue("text"), StrValue("Alpha beta.")>>,
                                            <<StrValue("page"), IntValue(1)>> >>)>>)>>,
                 <<StrValue("tables"), ListValue(tables)>>,
                 <<StrValue("charts"), ListValue(charts)>>,
                 <<StrValue("file_hash"), StrValue("0cc175b9")>> >>)

\* a table of pdf_processor with its DataFrame converted by to_dict(): {column: {index: value}}
TableEntry ==
    DictValue(<< <<StrValue("page"), IntValue(1)>>,
                 <<StrValue("data"),
                   DictValue(<< <<StrValue("Col0"), DictValue(<< <<IntValue(0), StrValue("x")>> >>)>> >>)>> >>)

\* a chart of pdf_processor: its area is a tuple
ChartEntry ==
    DictValue(<< <<StrValue("page"), IntValue(1)>>,
                 <<StrValue("area"), TupleValue(<<IntValue(1), IntValue(2)>>)>> >>)

VaultPayloads ==
    {AssignmentData(<<>>, <<>>), AssignmentData(<<TableEntry>>, <<>>),
     AssignmentData(<<>>, <<ChartEntry>>)}

NoOutcome == [op |-> "none"]

InitVault ==
    /\ consecutive_quote_requests = 0
    /\ previous_chunks_provided = <<>>
    /\ call = [t \in Threads |-> IdleCall]
    /\ base = GuardState
    /\ round_calls = 0
    /\ streak = 0
    /\ alt_len = 0
    /\ alone = [session |-> 0, count |-> 0, prev |-> <<>>]
    /\ job \in {[pc |-> "vault", env |-> env, assignment_id |-> <<>>, files |-> {}, out |-> NoOutcome] :
                   env \in Environments}

VaultUnchanged ==
    UNCHANGED <<consecutive_quote_requests, previous_chunks_provided, call, base,
                round_calls, streak, alt_len, alone>>

\* candidate_mode, lines 541-557: the identifier of the session and the encrypted PDF
StoreSource(id, pdf_data) ==
    /\ job.pc = "vault"
    /\ LET assignment_id == IF job.assignment_id = <<>> THEN id ELSE job.assignment_id
       IN job' = [job EXCEPT
                     !.assignment_id = assignment_id,
                     !.files = WriteFile(@, [path |-> pdf_storage_path(assignment_id),
                                             token |-> encrypt_file(pdf_data, assignment_id, job.env),
                                             id |-> assignment_id, kind |-> "source",
                                             payload |-> pdf_data]),
                     !.out = NoOutcome]
    /\ VaultUnchanged

\* save_assignment_data, lines 126-142, for a processed assignment
SaveBundle(assignment_data) ==
    /\ job.pc = "vault"
    /\ job.assignment_id # <<>>
    /\ job' = [job EXCEPT
                  !.files = WriteFile(@, [path |-> secure_file_path(job.assignment_id),
                                          token |-> encrypt_data(assignment_data, job.assignment_id, job.env),
                                          id |-> job.assignment_id, kind |-> "bundle",
                                          payload |-> assignment_data]),
                  !.out = NoOutcome]
    /\ VaultUnchanged

\* a stored file is modified outside the application
Tamper(f) ==
    /\ job.pc = "vault"
    /\ f \in job.files
    /\ f.token.intact
    /\ job' = [job EXCEPT !.files = WriteFile(@, [f EXCEPT !.token = Tampered(f.token)]),
                          !.out = NoOutcome]
    /\ VaultUnchanged

\* the process is started again, with ENCRYPTION_SALT env: the session is new, the files stay
Restart(env) ==
    /\ job.pc = "vault"
    /\ job' = [job EXCEPT !.env = env, !.assignment_id = <<>>, !.out = NoOutcome]
    /\ VaultUnchanged

\* evaluator_mode, lines 644-651: load_assignment_data(assignment_id)
LoadStored(id) ==
    /\ job.pc = "vault"
    /\ job' = [job EXCEPT !.out = [op |-> "load", id |-> id, files |-> job.files, env |-> job.env,
                                   outcome |-> load_assignment_data(job.files, id, job.env)]]
    /\ VaultUnchanged

\* decrypt_data or decrypt_file applied to a stored file with an identifier
Decrypt(f, id) ==
    /\ job.pc = "vault"
    /\ f \in job.files
    /\ job' = [job EXCEPT !.out = [op |-> "decrypt", id |-> id, file |-> f, env |-> job.env,
                                   result |-> IF f.kind = "bundle"
                                              THEN decrypt_data(f.token, id, job.env)
                                              ELSE decrypt_file(f.token, id, job.env)]]
    /\ VaultUnchanged

NextVault ==
    \/ \E id \in GeneratedIds, pdf_data \in PdfData : StoreSource(id, pdf_data)
    \/ \E assignment_data \in VaultPayloads : SaveBundle(assignment_data)
    \/ \E f \in job.files : Tamper(f)
    \/ \E env \in Environments : Restart(env)
    \/ \E id \in SuppliedIds : LoadStored(id)
    \/ \E f \in job.files, id \in SuppliedIds : Decrypt(f, id)

SpecVault == InitVault /\ [][NextVault]_vars

\* a decryption has been applied to a stored file
Decrypted == job.pc = "vault" /\ job.out.op = "decrypt"

\* the process that decrypts has the salt of the process that encrypted
SameSalt(out) == encode(PyStr(EnvSalt(out.env))) = out.file.token.key.salt

\* C23: decrypting an unmodified bundle with the identifier and the salt it was encrypted
\* under gives back the payload that was encrypted, whatever the payload and the identifier.
C23_VaultRoundTrip ==
    (/\ Decrypted
     /\ job.out.file.kind = "bundle"
     /\ job.out.file.token.intact
     /\ job.out.id = job.out.file.id
     /\ SameSalt(job.out))
        => (job.out.result.raised = "" /\ job.out.result.data = job.out.file.payload)

\* C24: decrypting with an identifier other than the one of the encryption, or decrypting
\* a modified ciphertext, raises the authentication error and returns no payload.
C24_WrongIdOrTamperFails ==
    (Decrypted /\ (job.out.id # job.out.file.id \/ ~job.out.file.token.intact))
        => job.out.result.raised = "InvalidToken"

\* C25: no path under which data of a document is stored contains the identifier of the
\* document.
C25_PathsHideId ==
    job.pc = "vault" => \A f \in job.files : ~Contains(f.path, f.id)

\* a load has been attempted
Loaded == job.pc = "vault" /\ job.out.op = "load"

\* the file a load reads, as a set of at most one file
LoadedFile == FileAt(job.out.files, secure_file_path(job.out.id))

\* the file read by the load fails authentication
LoadFailsAuthentication ==
    /\ LoadedFile # {}
    /\ \E f \in LoadedFile : decrypt_data(f.token, job.out.id, job.out.env).raised = "InvalidToken"

\* C26: a load of an identifier with no stored file returns False and shows nothing; a load
\* whose file fails authentication returns False and shows an error, so the two outcomes
\* differ.
C26_MissingDistinctFromAuthFailure ==
    Loaded =>
        /\ LoadedFile = {} => job.out.outcome = LoadOutcome(FALSE, <<>>)
        /\ LoadFailsAuthentication =>
              /\ ~job.out.outcome.returned
              /\ job.out.outcome.errors # <<>>
              /\ job.out.outcome # load_assignment_data({}, job.out.id, job.out.env)

\* a load of a stored, modified bundle has failed
C26_Witness ==
    /\ Loaded
    /\ LoadFailsAuthentication
    /\ \E f \in LoadedFile : ~f.token.intact
    /\ ~job.out.outcome.returned

(***************************************************************************)
(* The prompts the application itself sends to answer_question: app.py.    *)
(* One script run of the Streamlit session is one action; the guardrail    *)
(* state is the pair of module globals, shared by every session of the     *)
(* process.                                                                *)
(***************************************************************************)
MaxRenders == 4
MaxAsks == 2
MaxLoads == 1

\* app.py lines 214 and 572
initial_prompt ==
    "Based on the content of this assignment, what are 6 important questions an evaluator might ask to assess the quality of the work?"

\* app.py line 437
structure_prompt ==
    "Based on the document chunks, identify the main sections or chapters of this assignment. List them in order."

\* app.py line 445
concepts_prompt ==
    "What are the 5-7 most important concepts or ideas in this assignment? List each with a very brief description."

AppPrompts == {initial_prompt, structure_prompt, concepts_prompt}

\* the questions an evaluator types: a plain one, and one the extraction patterns match
EvaluatorQuestions == {"What is beta?", "show me the full text"}

\* the text extracted from the uploaded PDF: a one-page document, and a six-page document
\* whose structure pages and concept pages share no word of the prompts
AppTexts ==
    << "\n--- Page 1 ---\nAlpha beta.",
       "\n--- Page 1 ---\nMain chapters, sections.\n--- Page 2 ---\nChapters in order.\n--- Page 3 ---\nSections list.\n--- Page 4 ---\nBrief ideas, concepts.\n--- Page 5 ---\nVery important concepts.\n--- Page 6 ---\nEach brief description." >>

AppDocuments == 1..Len(AppTexts)

\* chunks = chunk_text(text), app.py line 560
AppChunks == [d \in AppDocuments |-> chunk_text(AppTexts[d], DEFAULT_MAX_CHUNK_SIZE, DEFAULT_OVERLAP).chunks]

\* get_relevant_chunks(question, chunks) for every document and question of the application
AppRelevant ==
    [d \in AppDocuments |->
        [q \in AppPrompts \cup EvaluatorQuestions |-> get_relevant_chunks(q, AppChunks[d], DEFAULT_TOP_K)]]

\* the pattern test of line 41 for every question of the application
AppExtraction == [q \in AppPrompts \cup EvaluatorQuestions |-> IsExtractionRequest(q)]

\* answer_question(question, st.session_state.pdf_chunks): the guardrail of lines 41-65
\* from guardrail state st, for document d
answer_question(st, d, question) ==
    IF AppExtraction[question]
    THEN [count |-> st.count, prev |-> st.prev, action |-> "EXTRACTION_POLICY"]
    ELSE LET chunk_overlap == ChunkOverlap(AppRelevant[d][question], st.prev)
         IN IF ShouldRefuse(chunk_overlap, st.count)
            THEN [count |-> 0, prev |-> st.prev, action |-> "REPETITION"]
            ELSE [count |-> st.count + Increment(chunk_overlap),
                  prev |-> Texts(AppRelevant[d][question]), action |-> "ANSWER"]

\* variant: a prompt of the application is answered on a guardrail state of its own
AppPromptApart(st, d, prompt) ==
    [count |-> st.count, prev |-> st.prev,
     action |-> answer_question([count |-> 0, prev |-> <<>>], d, prompt).action]

\* app.py lines 215, 438, 446 and 574: the prompt goes to answer_question like a question
AppPrompt(st, d, prompt) == answer_question(st, d, prompt)

Refusals(actions) == Cardinality({i \in 1..Len(actions) : actions[i] = "REPETITION"})

\* the session after the script run that sent the prompts whose outcomes are given
AfterPrompts(outcomes) ==
    [job EXCEPT !.app_calls = @ + Len(outcomes),
                !.refusals = @ + Refusals([i \in 1..Len(outcomes) |-> outcomes[i].action]),
                !.last = outcomes[Len(outcomes)].action]

InitApp ==
    /\ consecutive_quote_requests = 0
    /\ previous_chunks_provided = <<>>
    /\ call = [t \in Threads |-> IdleCall]
    /\ base = GuardState
    /\ round_calls = 0
    /\ streak = 0
    /\ alt_len = 0
    /\ alone = [session |-> 0, count |-> 0, prev |-> <<>>]
    /\ job = [pc |-> "app", doc |-> 0, rerun |-> FALSE, renders |-> 0, asks |-> 0, loads |-> 0,
              app_calls |-> 0, refusals |-> 0, last |-> "NONE"]

AppUnchanged == UNCHANGED <<call, base, round_calls, streak, alt_len, alone>>

\* candidate_mode, lines 520-585: a PDF is uploaded, chunked, and the suggested questions
\* are asked for (the encrypted copy of the PDF is StoreSource of SpecVault)
Upload(d) ==
    /\ job.pc = "app"
    /\ job.doc = 0
    /\ LET r == AppPrompt(GuardState, d, initial_prompt)
       IN /\ consecutive_quote_requests' = r.count
          /\ previous_chunks_provided' = r.prev
          /\ job' = [AfterPrompts(<<r>>) EXCEPT !.doc = d]
    /\ AppUnchanged

\* load_assignment_data, lines 208-215, in a new evaluator session (suggested_questions
\* is empty), and the rerun of line 666
Load(d) ==
    /\ job.pc = "app"
    /\ job.doc \in {0, d}
    /\ ~job.rerun
    /\ job.loads < MaxLoads
    /\ job.renders < MaxRenders
    /\ LET r == AppPrompt(GuardState, d, initial_prompt)
       IN /\ consecutive_quote_requests' = r.count
          /\ previous_chunks_provided' = r.prev
          /\ job' = [AfterPrompts(<<r>>) EXCEPT !.doc = d, !.loads = @ + 1, !.rerun = TRUE]
    /\ AppUnchanged

\* evaluation_interface, lines 398-448: every script run that shows the interface sends the
\* structure prompt and then the key-concepts prompt
Render ==
    /\ job.pc = "app"
    /\ job.doc # 0
    /\ job.renders < MaxRenders
    /\ LET structure == AppPrompt(GuardState, job.doc, structure_prompt)
           concepts == AppPrompt(structure, job.doc, concepts_prompt)
       IN /\ consecutive_quote_requests' = concepts.count
          /\ previous_chunks_provided' = concepts.prev
          /\ job' = [AfterPrompts(<<structure, concepts>>) EXCEPT !.renders = @ + 1, !.rerun = FALSE]
    /\ AppUnchanged

\* display_chat_interface, lines 347-396: the submitted question is answered and the script
\* is run again
Ask(question) ==
    /\ job.pc = "app"
    /\ job.doc # 0
    /\ ~job.rerun
    /\ job.asks < MaxAsks
    /\ job.renders < MaxRenders
    /\ LET r == answer_question(GuardState, job.doc, question)
       IN /\ consecutive_quote_requests' = r.count
          /\ previous_chunks_provided' = r.prev
          /\ job' = [job EXCEPT !.asks = @ + 1, !.rerun = TRUE, !.last = r.action]
    /\ AppUnchanged

NextApp ==
    \/ \E d \in AppDocuments : Upload(d)
    \/ \E d \in AppDocuments : Load(d)
    \/ Render
    \/ \E question \in EvaluatorQuestions : Ask(question)

SpecApp == InitApp /\ [][NextApp]_vars

\* every two prompts of the application retrieve a common chunk of document d
AlwaysOverlapping(d) ==
    \A p \in AppPrompts, q \in AppPrompts :
        ChunkOverlap(AppRelevant[d][p], Texts(AppRelevant[d][q])) # {}

\* C30: the prompts of the application count like questions: while no evaluator question
\* has been asked, on a document whose prompts retrieve overlapping chunks the counter
\* rises by one at every prompt after the first, and every prompt that finds it at the
\* threshold is refused and resets it, so the fifth prompt (the second render after an
\* upload) is returned the repetition refusal.
C30_AppPromptsCount ==
    (/\ job.pc = "app"
     /\ job.asks = 0
     /\ job.app_calls >= 1
     /\ AlwaysOverlapping(job.doc))
        => /\ consecutive_quote_requests = (job.app_calls - 1) % (MAX_CONSECUTIVE_QUOTES + 1)
           /\ job.refusals = (job.app_calls - 1) \div (MAX_CONSECUTIVE_QUOTES + 1)
           /\ (job.last = "REPETITION") = (consecutive_quote_requests = 0 /\ job.app_calls > 1)

\* two renders after an upload, no question asked: the key-concepts prompt is refused
C30_Witness ==
    /\ job.pc = "app"
    /\ job.asks = 0
    /\ job.loads = 0
    /\ job.renders = 2
    /\ job.refusals = 1
    /\ job.last = "REPETITION"

============================================================================
